---- MODULE Spec2Model ----
(***************************************************************************)
(* The worker pool of remove-background-next (worker-pool.js, the          *)
(* WorkerPool class) together with the execution units it drives           *)
(* (worker.js, PipelineSingleton and the message listener).                *)
(*                                                                         *)
(* The pool runs on the page's single thread: every method and every event *)
(* handler of WorkerPool contains no await and so runs to completion; each *)
(* is one action.  A unit runs in its own thread; its listener is async    *)
(* and is cut at its await points.  Messages travel in two FIFO channels   *)
(* per unit: inbox (pool to unit) and outbox (unit to pool).               *)
(***************************************************************************)
EXTENDS Integers, Sequences, FiniteSets, TLC

\* ---- bounds of the model ----
MaxTasks == 2          \* calls of processImage
MaxObjs == 3           \* Worker objects ever constructed
MaxInitCalls == 2      \* calls of initialize
MaxAdverse == 1        \* error events of units, from_pretrained calls that
                       \* throw and inference runs that throw, together
MaxRequested == 2      \* largest constructor argument tried
MaxHardware == 1       \* largest navigator.hardwareConcurrency tried
MaxImages == 2         \* images uploaded to the page

\* ---- program constants ----
DefaultConcurrency == 4   \* navigator.hardwareConcurrency || 4

NoWorker == 0   \* null / undefined / a hole of the workers array
NoTask == 0     \* null task id
InitSrc == 0    \* the init directive, as the origin of a unit's message

Objs == 1..MaxObjs
Tasks == 1..MaxTasks

VARIABLES
    requestedWorkers,     \* the constructor's argument
    hardwareConcurrency,  \* navigator.hardwareConcurrency, 0 when unavailable
    maxWorkers,           \* this.maxWorkers
    adverseBudget,        \* adverse events the environment may still raise
                          \* in this behaviour, counted from the start
    ready,                \* page.js: the state `ready` of Home
    workerPoolStats,      \* page.js: the state `workerPoolStats`, << >> is null
    effectDue,            \* page.js: the effect with dependency [ready] is
                          \* due to run (mount, or `ready` has changed)
    processing,           \* page.js: the state `processing`
    batchProcessing,      \* page.js: the state `batchProcessing`
    uploadedImages,       \* page.js: the state `uploadedImages`, per image
                          \* its field `processed`
    awaiting,             \* tasks on which a call of the page's processImage
                          \* is suspended (await workerPool.processImage)
    batch,                \* tasks of the running handleProcessAll whose map
                          \* callback has not returned
    taskImage,            \* per task: the image it was submitted for, 0 if
                          \* it was not submitted through the page
    workers,              \* this.workers: sequence of Worker objects
    taskQueue,            \* this.taskQueue: sequence of task ids
    activeTasks,          \* this.activeTasks: Map, its keys in insertion order
    readyWorkers,         \* this.readyWorkers: Set, in insertion order
    isInitializing,       \* this.isInitializing
    taskWorker,           \* task.worker of every task
    settles,              \* per task: invocations of resolve and of reject
    progressed,           \* per task: the last message passed to onProgress
    wstate,               \* per Worker object: "none", "live", "terminated"
    wid,                  \* worker.id
    busy,                 \* worker.busy
    listeners,            \* event types the pool listens to on the object
    initsSent,            \* init directives posted to the object
    inbox,                \* directives posted to the unit, not yet received
    outbox,               \* messages posted by the unit, not yet handled
    handlers,             \* the unit's listener invocations that are suspended
    model,                \* PipelineSingleton.model is set
    processor,            \* PipelineSingleton.processor is set
    builds,               \* per unit: from_pretrained calls started
    timers,               \* pending setTimeout(restartWorker) callbacks
    nTasks,               \* tasks submitted so far
    nObjs,                \* Worker objects constructed so far
    dispatched,           \* task ids in the order executeTask was invoked
    initCalls,            \* calls of initialize so far
    firstGen,             \* this.workers and the number of Worker objects
                          \* when the first initialize returned
    reported,             \* per Worker object: a ready, complete or error
                          \* message of it has been handled
    faults,               \* error events so far
    loadFailures,         \* failed from_pretrained calls so far
    inferFailures,        \* failed inference runs so far
    poolTerminated        \* terminate() has been called

vars == << requestedWorkers, hardwareConcurrency, maxWorkers, adverseBudget,
           ready, workerPoolStats, effectDue, processing, batchProcessing,
           uploadedImages, awaiting, batch, taskImage, workers,
           taskQueue, activeTasks, readyWorkers, isInitializing, taskWorker,
           settles, progressed, wstate, wid, busy, listeners, initsSent,
           inbox, outbox, handlers, model, processor, builds, timers, nTasks,
           nObjs, dispatched, initCalls, firstGen, reported, faults,
           loadFailures,
           inferFailures, poolTerminated >>

config ==
    << requestedWorkers, hardwareConcurrency, maxWorkers, adverseBudget >>

\* the state of the component Home that the pool is used through
work ==
    << processing, batchProcessing, uploadedImages, awaiting, batch,
       taskImage >>

page == << ready, workerPoolStats, effectDue, work >>

\* ---- helpers on sequences used as the insertion-ordered Map and Set ----
Min(a, b) == IF a <= b THEN a ELSE b

Range(s) == { s[i] : i \in 1..Len(s) }

InSeq(x, s) == x \in Range(s)

\* Set.prototype.add: an element already present keeps its position
SetAdd(s, x) == IF InSeq(x, s) THEN s ELSE Append(s, x)

\* Set.prototype.delete / Map.prototype.delete
SeqDelete(s, x) == SelectSeq(s, LAMBDA y : y # x)

\* ---- the state as one record, so that handlers compose ----
Pool ==
    [ workers |-> workers, taskQueue |-> taskQueue,
      activeTasks |-> activeTasks, readyWorkers |-> readyWorkers,
      isInitializing |-> isInitializing, taskWorker |-> taskWorker,
      settles |-> settles, progressed |-> progressed, wstate |-> wstate,
      wid |-> wid, busy |-> busy, listeners |-> listeners,
      initsSent |-> initsSent, inbox |-> inbox, outbox |-> outbox,
      handlers |-> handlers, timers |-> timers, nObjs |-> nObjs,
      dispatched |-> dispatched ]

Commit(P) ==
    /\ workers' = P.workers
    /\ taskQueue' = P.taskQueue
    /\ activeTasks' = P.activeTasks
    /\ readyWorkers' = P.readyWorkers
    /\ isInitializing' = P.isInitializing
    /\ taskWorker' = P.taskWorker
    /\ settles' = P.settles
    /\ progressed' = P.progressed
    /\ wstate' = P.wstate
    /\ wid' = P.wid
    /\ busy' = P.busy
    /\ listeners' = P.listeners
    /\ initsSent' = P.initsSent
    /\ inbox' = P.inbox
    /\ outbox' = P.outbox
    /\ handlers' = P.handlers
    /\ timers' = P.timers
    /\ nObjs' = P.nObjs
    /\ dispatched' = P.dispatched

\* ---- messages ----
\* a message of a unit: its status, the directive whose handling posted it
\* (InitSrc or a task id) and, for an error, what failed
Msg(status, src, what) == [ status |-> status, src |-> src, what |-> what ]

NoMsg == Msg("none", NoTask, "")

InitDirective == [ type |-> "init", taskId |-> NoTask ]

TaskDirective(t) == [ type |-> "task", taskId |-> t ]

\* Worker.postMessage: a terminated worker receives nothing
postMessage(P, w, d) ==
    IF P.wstate[w] = "live" THEN [ P EXCEPT !.inbox[w] = Append(@, d) ] ELSE P

\* Worker.terminate: the unit stops and the messages it posted that were not
\* yet dispatched on the page are discarded
workerTerminate(P, w) ==
    [ P EXCEPT !.wstate[w] = "terminated", !.inbox[w] = << >>,
               !.outbox[w] = << >>, !.handlers[w] = {} ]

\* task.resolve(data) / task.reject(error): the invocations are counted and
\* the first one decides what the future settles with
resolve(P, t, by) ==
    LET s == P.settles[t]
    IN  [ P EXCEPT !.settles[t] =
            [ resolve |-> s.resolve + 1, reject |-> s.reject,
              by |-> IF s.resolve + s.reject = 0 THEN by ELSE s.by ] ]

reject(P, t, by) ==
    LET s == P.settles[t]
    IN  [ P EXCEPT !.settles[t] =
            [ resolve |-> s.resolve, reject |-> s.reject + 1,
              by |-> IF s.resolve + s.reject = 0 THEN by ELSE s.by ] ]

\* ---- WorkerPool ----
findTaskIdByWorker(P, w) ==
    LET bound == SelectSeq(P.activeTasks, LAMBDA t : P.taskWorker[t] = w)
    IN  IF bound = << >> THEN NoTask ELSE Head(bound)

\* returns the worker and the pool without it in the ready set
getAvailableWorker(P) ==
    IF Len(P.readyWorkers) = 0
    THEN [ worker |-> NoWorker, pool |-> P ]
    ELSE [ worker |-> Head(P.readyWorkers),
           pool |-> [ P EXCEPT !.readyWorkers = Tail(@) ] ]

\* executeTask without this.activeTasks.set(task.id, task)
executeTask_Unregistered(P, t, w) ==
    postMessage([ P EXCEPT !.busy[w] = TRUE,
                           !.taskWorker[t] = w,
                           !.dispatched = Append(@, t) ],
                w, TaskDirective(t))

executeTask(P, t, w) ==
    postMessage([ P EXCEPT !.busy[w] = TRUE,
                           !.taskWorker[t] = w,
                           !.activeTasks = SetAdd(@, t),
                           !.dispatched = Append(@, t) ],
                w, TaskDirective(t))

\* processQueue with this.taskQueue.pop() in place of shift()
processQueue_TakesLast(P) ==
    IF Len(P.taskQueue) = 0 \/ Len(P.readyWorkers) = 0
    THEN P
    ELSE LET task == P.taskQueue[Len(P.taskQueue)]
             r == getAvailableWorker(
                      [ P EXCEPT !.taskQueue = SubSeq(@, 1, Len(@) - 1) ])
         IN  IF r.worker # NoWorker
             THEN executeTask(r.pool, task, r.worker)
             ELSE [ r.pool EXCEPT !.taskQueue = Append(@, task) ]

processQueue(P) ==
    IF Len(P.taskQueue) = 0 \/ Len(P.readyWorkers) = 0
    THEN P
    ELSE LET task == Head(P.taskQueue)
             r == getAvailableWorker([ P EXCEPT !.taskQueue = Tail(@) ])
         IN  IF r.worker # NoWorker
             THEN executeTask(r.pool, task, r.worker)
             ELSE [ r.pool EXCEPT !.taskQueue = << task >> \o @ ]

\* handleWorkerMessage whose complete/error case leaves worker.busy and
\* this.readyWorkers alone
handleWorkerMessage_StaysBusy(P, w, data) ==
    LET taskId == findTaskIdByWorker(P, w)
    IN  CASE data.status = "ready" ->
                processQueue([ P EXCEPT !.readyWorkers = SetAdd(@, w) ])
          [] data.status \in { "complete", "error" } ->
                LET P2 == IF taskId # NoTask /\ InSeq(taskId, P.activeTasks)
                          THEN LET P3 == [ P EXCEPT !.activeTasks =
                                                     SeqDelete(@, taskId) ]
                               IN  IF data.status = "complete"
                                   THEN resolve(P3, taskId, data)
                                   ELSE reject(P3, taskId, data)
                          ELSE P
                IN  processQueue(P2)
          [] OTHER ->
                IF taskId # NoTask /\ InSeq(taskId, P.activeTasks)
                THEN [ P EXCEPT !.progressed[taskId] = data ]
                ELSE P

\* handleWorkerMessage whose ready case does not call this.processQueue()
handleWorkerMessage_ReadyNoDrain(P, w, data) ==
    LET taskId == findTaskIdByWorker(P, w)
    IN  CASE data.status = "ready" ->
                [ P EXCEPT !.readyWorkers = SetAdd(@, w) ]
          [] data.status \in { "complete", "error" } ->
                LET P1 == [ P EXCEPT !.busy[w] = FALSE,
                                     !.readyWorkers = SetAdd(@, w) ]
                    P2 == IF taskId # NoTask /\ InSeq(taskId, P1.activeTasks)
                          THEN LET P3 == [ P1 EXCEPT !.activeTasks =
                                                      SeqDelete(@, taskId) ]
                               IN  IF data.status = "complete"
                                   THEN resolve(P3, taskId, data)
                                   ELSE reject(P3, taskId, data)
                          ELSE P1
                IN  processQueue(P2)
          [] OTHER ->
                IF taskId # NoTask /\ InSeq(taskId, P.activeTasks)
                THEN [ P EXCEPT !.progressed[taskId] = data ]
                ELSE P

\* handleWorkerMessage whose default case also marks the sender ready
handleWorkerMessage_ProgressFrees(P, w, data) ==
    LET taskId == findTaskIdByWorker(P, w)
    IN  CASE data.status = "ready" ->
                processQueue([ P EXCEPT !.readyWorkers = SetAdd(@, w) ])
          [] data.status \in { "complete", "error" } ->
                LET P1 == [ P EXCEPT !.busy[w] = FALSE,
                                     !.readyWorkers = SetAdd(@, w) ]
                    P2 == IF taskId # NoTask /\ InSeq(taskId, P1.activeTasks)
                          THEN LET P3 == [ P1 EXCEPT !.activeTasks =
                                                      SeqDelete(@, taskId) ]
                               IN  IF data.status = "complete"
                                   THEN resolve(P3, taskId, data)
                                   ELSE reject(P3, taskId, data)
                          ELSE P1
                IN  processQueue(P2)
          [] OTHER ->
                LET P1 == [ P EXCEPT !.readyWorkers = SetAdd(@, w) ]
                IN  IF taskId # NoTask /\ InSeq(taskId, P.activeTasks)
                    THEN [ P1 EXCEPT !.progressed[taskId] = data ]
                    ELSE P1

\* handleWorkerMessage without this.activeTasks.delete(taskId)
handleWorkerMessage_KeepsTask(P, w, data) ==
    LET taskId == findTaskIdByWorker(P, w)
    IN  CASE data.status = "ready" ->
                processQueue([ P EXCEPT !.readyWorkers = SetAdd(@, w) ])
          [] data.status \in { "complete", "error" } ->
                LET P1 == [ P EXCEPT !.busy[w] = FALSE,
                                     !.readyWorkers = SetAdd(@, w) ]
                    P2 == IF taskId # NoTask /\ InSeq(taskId, P1.activeTasks)
                          THEN IF data.status = "complete"
                               THEN resolve(P1, taskId, data)
                               ELSE reject(P1, taskId, data)
                          ELSE P1
                IN  processQueue(P2)
          [] OTHER ->
                IF taskId # NoTask /\ InSeq(taskId, P.activeTasks)
                THEN [ P EXCEPT !.progressed[taskId] = data ]
                ELSE P

handleWorkerMessage(P, w, data) ==
    LET taskId == findTaskIdByWorker(P, w)
    IN  CASE data.status = "ready" ->
                processQueue([ P EXCEPT !.readyWorkers = SetAdd(@, w) ])
          [] data.status \in { "complete", "error" } ->
                LET P1 == [ P EXCEPT !.busy[w] = FALSE,
                                     !.readyWorkers = SetAdd(@, w) ]
                    P2 == IF taskId # NoTask /\ InSeq(taskId, P1.activeTasks)
                          THEN LET P3 == [ P1 EXCEPT !.activeTasks =
                                                      SeqDelete(@, taskId) ]
                               IN  IF data.status = "complete"
                                   THEN resolve(P3, taskId, data)
                                   ELSE reject(P3, taskId, data)
                          ELSE P1
                IN  processQueue(P2)
          [] OTHER ->
                IF taskId # NoTask /\ InSeq(taskId, P.activeTasks)
                THEN [ P EXCEPT !.progressed[taskId] = data ]
                ELSE P

\* the loop of handleWorkerError without its test task.worker === worker
RECURSIVE rejectBound_All(_, _, _)
rejectBound_All(P, w, i) ==
    IF i > Len(P.activeTasks)
    THEN P
    ELSE LET taskId == P.activeTasks[i]
         IN  rejectBound_All(
                 [ reject(P, taskId, Msg("fault", NoTask, "fault"))
                     EXCEPT !.activeTasks = SeqDelete(@, taskId) ],
                 w, i)

\* the loop of handleWorkerError over activeTasks.entries(): a Map iterator
\* is live, so after a delete the next entry is found at the same position
RECURSIVE rejectBound(_, _, _)
rejectBound(P, w, i) ==
    IF i > Len(P.activeTasks)
    THEN P
    ELSE LET taskId == P.activeTasks[i]
         IN  IF findTaskIdByWorker(P, w) = taskId
             THEN rejectBound(
                      [ reject(P, taskId, Msg("fault", NoTask, "fault"))
                          EXCEPT !.activeTasks = SeqDelete(@, taskId) ],
                      w, i)
             ELSE rejectBound(P, w, i + 1)

\* handleWorkerError that also empties this.taskQueue
handleWorkerError_DropsQueue(P, w) ==
    LET P1 == [ P EXCEPT !.busy[w] = FALSE,
                         !.readyWorkers = SeqDelete(@, w),
                         !.taskQueue = << >> ]
        P2 == rejectBound(P1, w, 1)
    IN  [ P2 EXCEPT !.timers = Append(@, w) ]

handleWorkerError(P, w) ==
    LET P1 == [ P EXCEPT !.busy[w] = FALSE,
                         !.readyWorkers = SeqDelete(@, w) ]
        P2 == rejectBound(P1, w, 1)
    IN  [ P2 EXCEPT !.timers = Append(@, w) ]

\* this.workers[i] = w for a 0-based i: an index past the end leaves holes
ArraySet(arr, i, w) ==
    [ k \in 1..(IF i + 1 > Len(arr) THEN i + 1 ELSE Len(arr)) |->
        IF k = i + 1 THEN w ELSE IF k <= Len(arr) THEN arr[k] ELSE NoWorker ]

\* new Worker(...), the id and busy fields and the two addEventListener calls
newWorker(P, n, id) ==
    [ P EXCEPT !.nObjs = n,
               !.wstate[n] = "live",
               !.wid[n] = id,
               !.busy[n] = FALSE,
               !.listeners[n] = { "message", "error" } ]

sendInit(P, w) ==
    postMessage([ P EXCEPT !.initsSent[w] = @ + 1 ], w, InitDirective)

restartWorker(P, w) ==
    LET n == P.nObjs + 1
        P1 == workerTerminate(P, w)
        P2 == newWorker(P1, n, P1.wid[w])
        P3 == [ P2 EXCEPT !.workers = ArraySet(@, P2.wid[w], n) ]
    IN  sendInit(P3, n)

\* the for loop of initialize without worker.postMessage({ type: 'init' })
RECURSIVE spawn_SkipsInit(_, _, _)
spawn_SkipsInit(P, i, count) ==
    IF i >= count
    THEN P
    ELSE LET n == P.nObjs + 1
             P1 == newWorker(P, n, i)
         IN  spawn_SkipsInit([ P1 EXCEPT !.workers = Append(@, n) ],
                             i + 1, count)

\* the for loop of initialize, from ordinal i on
RECURSIVE spawn(_, _, _)
spawn(P, i, count) ==
    IF i >= count
    THEN P
    ELSE LET n == P.nObjs + 1
             P1 == newWorker(P, n, i)
             P2 == [ P1 EXCEPT !.workers = Append(@, n) ]
         IN  spawn(sendInit(P2, n), i + 1, count)

initialize(P, count) ==
    IF P.isInitializing
    THEN P
    ELSE LET P1 == [ P EXCEPT !.isInitializing = TRUE ]
             P2 == spawn(P1, 0, count)
         IN  [ P2 EXCEPT !.isInitializing = FALSE ]

\* processImage that rejects at once when the pool has no unit
processImage_RejectsWithoutUnits(P, t) ==
    IF Len(P.workers) = 0
    THEN reject(P, t, Msg("terminated", NoTask, "terminated"))
    ELSE processQueue([ P EXCEPT !.taskQueue = Append(@, t) ])

\* processImage with this.taskQueue.unshift(task) in place of push
processImage_Unshift(P, t) ==
    processQueue([ P EXCEPT !.taskQueue = << t >> \o @ ])

\* processImage without its call of this.processQueue()
processImage_NoDrain(P, t) ==
    [ P EXCEPT !.taskQueue = Append(@, t) ]

processImage(P, t) ==
    processQueue([ P EXCEPT !.taskQueue = Append(@, t) ])

\* getStats that reports this.activeTasks.size as queuedTasks
getStats_QueuedFromActive(P) ==
    [ totalWorkers |-> Len(P.workers),
      readyWorkers |-> Len(P.readyWorkers),
      activeTasks |-> Len(P.activeTasks),
      queuedTasks |-> Len(P.activeTasks),
      isInitializing |-> P.isInitializing ]

getStats(P) ==
    [ totalWorkers |-> Len(P.workers),
      readyWorkers |-> Len(P.readyWorkers),
      activeTasks |-> Len(P.activeTasks),
      queuedTasks |-> Len(P.taskQueue),
      isInitializing |-> P.isInitializing ]

RECURSIVE rejectAll(_, _)
rejectAll(P, ts) ==
    IF ts = << >>
    THEN P
    ELSE rejectAll(reject(P, Head(ts), Msg("terminated", NoTask, "terminated")),
                   Tail(ts))

\* the loop over this.workers: worker.terminate() on a hole of the array
\* throws a TypeError, which ends terminate at that point
RECURSIVE terminateAll(_, _)
terminateAll(P, ws) ==
    IF ws = << >>
    THEN [ pool |-> P, threw |-> FALSE ]
    ELSE IF Head(ws) = NoWorker
         THEN [ pool |-> P, threw |-> TRUE ]
         ELSE terminateAll(workerTerminate(P, Head(ws)), Tail(ws))

\* terminate without the loop that rejects the tasks of this.activeTasks
terminate_LeavesActive(P) ==
    LET P1 == [ rejectAll(P, P.taskQueue) EXCEPT !.taskQueue = << >> ]
        P2 == [ P1 EXCEPT !.activeTasks = << >> ]
        r == terminateAll(P2, P2.workers)
    IN  IF r.threw
        THEN r.pool
        ELSE [ r.pool EXCEPT !.workers = << >>, !.readyWorkers = << >> ]

terminate(P) ==
    LET P1 == [ rejectAll(P, P.taskQueue) EXCEPT !.taskQueue = << >> ]
        P2 == [ rejectAll(P1, P1.activeTasks) EXCEPT !.activeTasks = << >> ]
        r == terminateAll(P2, P2.workers)
    IN  IF r.threw
        THEN r.pool
        ELSE [ r.pool EXCEPT !.workers = << >>, !.readyWorkers = << >> ]

\* ---- the execution unit (worker.js) ----
\* the budget of adverse events is not used up
Adverse == faults + loadFailures + inferFailures < adverseBudget

Post(box, msgs) == box \o msgs

\* PipelineSingleton.getInstance up to its first await, entered by the
\* listener for directive d
UnitReceive(w) ==
    /\ wstate[w] = "live"
    /\ inbox[w] # << >>
    /\ LET d == Head(inbox[w])
           src == IF d.type = "init" THEN InitSrc ELSE d.taskId
           P1 == [ Pool EXCEPT !.inbox[w] = Tail(@) ]
       IN  IF model[w] /\ processor[w]
           THEN /\ Commit(IF d.type = "init"
                          THEN P1
                          ELSE [ P1 EXCEPT !.handlers[w] =
                                   @ \cup { [ src |-> src, pc |-> "infer" ] } ])
                /\ UNCHANGED builds
           ELSE /\ Commit([ P1 EXCEPT
                      !.outbox[w] = Post(@, << Msg("initiate", src, ""),
                                              Msg("progress", src, "") >>),
                      !.handlers[w] =
                          @ \cup { [ src |-> src, pc |-> "model" ] } ])
                /\ builds' = [ builds EXCEPT ![w].model = @ + 1 ]
    /\ UNCHANGED << config, page, model, processor, nTasks, initCalls, firstGen,
                    reported, faults, loadFailures, inferFailures,
                    poolTerminated >>

\* AutoModel.from_pretrained resolves.  The progress callbacks of the library
\* post further messages whose status is none of ready, complete, error;
\* the messages the unit posts by itself stand for them.
UnitModelLoaded(w) ==
    /\ wstate[w] = "live"
    /\ \E h \in handlers[w] :
        /\ h.pc = "model"
        /\ Commit([ Pool EXCEPT
              !.outbox[w] = Post(@, << Msg("progress", h.src, "") >>),
              !.handlers[w] = (@ \ { h }) \cup { [ h EXCEPT !.pc = "proc" ] } ])
    /\ model' = [ model EXCEPT ![w] = TRUE ]
    /\ builds' = [ builds EXCEPT ![w].processor = @ + 1 ]
    /\ UNCHANGED << config, page, processor, nTasks, initCalls, firstGen, reported,
                    faults, loadFailures, inferFailures, poolTerminated >>

\* a from_pretrained call throws: the catch of getInstance posts an error
\* naming the phase and rethrows, the catch of the listener posts a second
CatchMessages_AlwaysModel(h) ==
    << Msg("error", h.src, "model"), Msg("error", h.src, "rethrown") >>

CatchMessages(h) ==
    << Msg("error", h.src, IF h.pc = "proc" THEN "processor" ELSE "model"),
       Msg("error", h.src, "rethrown") >>

UnitLoadFailed(w) ==
    /\ wstate[w] = "live"
    /\ Adverse
    /\ \E h \in handlers[w] :
        /\ h.pc \in { "model", "proc" }
        /\ Commit([ Pool EXCEPT !.outbox[w] = Post(@, CatchMessages(h)),
                                !.handlers[w] = @ \ { h } ])
    /\ loadFailures' = loadFailures + 1
    /\ UNCHANGED << config, page, model, processor, builds, nTasks, initCalls,
                    firstGen, reported, faults, inferFailures, poolTerminated >>

\* AutoProcessor.from_pretrained resolves: ready is posted and getInstance
\* returns to the listener
UnitProcessorLoaded(w) ==
    /\ wstate[w] = "live"
    /\ \E h \in handlers[w] :
        /\ h.pc = "proc"
        /\ Commit([ Pool EXCEPT
              !.outbox[w] = Post(@, << Msg("progress", h.src, ""),
                                      Msg("ready", h.src, "") >>),
              !.handlers[w] =
                  IF h.src = InitSrc
                  THEN @ \ { h }
                  ELSE (@ \ { h }) \cup { [ h EXCEPT !.pc = "infer" ] } ])
    /\ processor' = [ processor EXCEPT ![w] = TRUE ]
    /\ UNCHANGED << config, page, model, builds, nTasks, initCalls, firstGen,
                    reported, faults, loadFailures, inferFailures,
                    poolTerminated >>

\* the inference of the listener runs to its end and posts complete
UnitComplete(w) ==
    /\ wstate[w] = "live"
    /\ \E h \in handlers[w] :
        /\ h.pc = "infer"
        /\ Commit([ Pool EXCEPT
              !.outbox[w] = Post(@, << Msg("complete", h.src, "") >>),
              !.handlers[w] = @ \ { h } ])
    /\ UNCHANGED << config, page, model, processor, builds, nTasks, initCalls,
                    firstGen, reported, faults, loadFailures, inferFailures,
                    poolTerminated >>

\* a step of the inference throws: the catch of the listener posts error
UnitInferFailed(w) ==
    /\ wstate[w] = "live"
    /\ Adverse
    /\ \E h \in handlers[w] :
        /\ h.pc = "infer"
        /\ Commit([ Pool EXCEPT
              !.outbox[w] = Post(@, << Msg("error", h.src, "inference") >>),
              !.handlers[w] = @ \ { h } ])
    /\ inferFailures' = inferFailures + 1
    /\ UNCHANGED << config, page, model, processor, builds, nTasks, initCalls,
                    firstGen, reported, faults, loadFailures, poolTerminated >>

\* ---- the pool's entry points and event handlers ----
\* restarts that are scheduled always find a Worker object to construct
ObjsLeft == MaxObjs - nObjs - Len(timers)

Initialize ==
    /\ initCalls < MaxInitCalls
    /\ ObjsLeft >= maxWorkers
    /\ LET P == initialize(Pool, maxWorkers)
       IN  /\ Commit(P)
           /\ firstGen' = IF initCalls = 0
                          THEN [ workers |-> P.workers, objs |-> P.nObjs ]
                          ELSE firstGen
    /\ initCalls' = initCalls + 1
    /\ UNCHANGED << config, page, model, processor, builds, nTasks, reported,
                    faults, loadFailures, inferFailures, poolTerminated >>

Submit ==
    /\ nTasks < MaxTasks
    /\ Commit(processImage(Pool, nTasks + 1))
    /\ nTasks' = nTasks + 1
    /\ UNCHANGED << config, page, model, processor, builds, initCalls, firstGen,
                    reported, faults, loadFailures, inferFailures,
                    poolTerminated >>

\* the 'message' listener of a Worker object
Deliver(w) ==
    /\ wstate[w] = "live"
    /\ "message" \in listeners[w]
    /\ outbox[w] # << >>
    /\ Commit(handleWorkerMessage([ Pool EXCEPT !.outbox[w] = Tail(@) ],
                                  w, Head(outbox[w])))
    /\ reported' =
         [ reported EXCEPT ![w] =
             @ \/ Head(outbox[w]).status \in { "ready", "complete", "error" } ]
    /\ UNCHANGED << config, page, model, processor, builds, nTasks, initCalls,
                    firstGen, faults, loadFailures, inferFailures,
                    poolTerminated >>

\* the 'error' listener of a Worker object
Fault(w) ==
    /\ wstate[w] = "live"
    /\ "error" \in listeners[w]
    /\ Adverse
    /\ ObjsLeft >= 1
    /\ Commit(handleWorkerError(Pool, w))
    /\ faults' = faults + 1
    /\ UNCHANGED << config, page, model, processor, builds, nTasks, initCalls,
                    firstGen, reported, loadFailures, inferFailures,
                    poolTerminated >>

\* the setTimeout callback of handleWorkerError; equal delays fire in order
RestartTimer ==
    /\ timers # << >>
    /\ Commit(restartWorker([ Pool EXCEPT !.timers = Tail(@) ], Head(timers)))
    /\ UNCHANGED << config, page, model, processor, builds, nTasks, initCalls,
                    firstGen, reported, faults, loadFailures, inferFailures,
                    poolTerminated >>

\* terminate is the shutdown of the pool and is called once
Terminate ==
    /\ ~poolTerminated
    /\ Commit(terminate(Pool))
    /\ poolTerminated' = TRUE
    /\ UNCHANGED << config, page, model, processor, builds, nTasks, initCalls,
                    firstGen, reported, faults, loadFailures, inferFailures >>

\* ---- the specification ----
\* the constructor, and everything else before the first call
Constructed ==
    /\ maxWorkers = Min(requestedWorkers,
                        IF hardwareConcurrency = 0 THEN DefaultConcurrency
                        ELSE hardwareConcurrency)
    /\ workers = << >>
    /\ taskQueue = << >>
    /\ activeTasks = << >>
    /\ readyWorkers = << >>
    /\ isInitializing = FALSE
    /\ taskWorker = [ t \in Tasks |-> NoWorker ]
    /\ settles = [ t \in Tasks |-> [ resolve |-> 0, reject |-> 0, by |-> NoMsg ] ]
    /\ progressed = [ t \in Tasks |-> NoMsg ]
    /\ wstate = [ w \in Objs |-> "none" ]
    /\ wid = [ w \in Objs |-> 0 ]
    /\ busy = [ w \in Objs |-> FALSE ]
    /\ listeners = [ w \in Objs |-> {} ]
    /\ initsSent = [ w \in Objs |-> 0 ]
    /\ inbox = [ w \in Objs |-> << >> ]
    /\ outbox = [ w \in Objs |-> << >> ]
    /\ handlers = [ w \in Objs |-> {} ]
    /\ model = [ w \in Objs |-> FALSE ]
    /\ processor = [ w \in Objs |-> FALSE ]
    /\ builds = [ w \in Objs |-> [ model |-> 0, processor |-> 0 ] ]
    /\ timers = << >>
    /\ nTasks = 0
    /\ nObjs = 0
    /\ dispatched = << >>
    /\ initCalls = 0
    /\ firstGen = [ workers |-> << >>, objs |-> 0 ]
    /\ reported = [ w \in Objs |-> FALSE ]
    /\ faults = 0
    /\ loadFailures = 0
    /\ inferFailures = 0
    /\ poolTerminated = FALSE

\* the pool is used directly, no component is mounted
NoPage ==
    /\ ready = "null"
    /\ workerPoolStats = << >>
    /\ effectDue = FALSE
    /\ processing = FALSE
    /\ batchProcessing = FALSE
    /\ uploadedImages = << >>
    /\ awaiting = { }
    /\ batch = { }
    /\ taskImage = [ t \in Tasks |-> 0 ]

Init ==
    /\ requestedWorkers \in 1..MaxRequested
    /\ hardwareConcurrency \in 0..MaxHardware
    /\ adverseBudget = MaxAdverse
    /\ NoPage
    /\ Constructed

Next ==
    \/ Initialize
    \/ Submit
    \/ Terminate
    \/ RestartTimer
    \/ \E w \in Objs : Deliver(w)
    \/ \E w \in Objs : Fault(w)
    \/ \E w \in Objs : UnitReceive(w)
    \/ \E w \in Objs : UnitModelLoaded(w)
    \/ \E w \in Objs : UnitProcessorLoaded(w)
    \/ \E w \in Objs : UnitLoadFailed(w)
    \/ \E w \in Objs : UnitComplete(w)
    \/ \E w \in Objs : UnitInferFailed(w)

Spec == Init /\ [][Next]_vars

\* a pool of one unit that is initialized once and never terminated, whose
\* unit raises no error event but may fail once more often in its loads
\* and inferences
InitOneUnit ==
    /\ requestedWorkers = 1
    /\ hardwareConcurrency = 0
    /\ adverseBudget = MaxAdverse + 1
    /\ NoPage
    /\ Constructed

NextOneUnit ==
    \/ initCalls = 0 /\ Initialize
    \/ Submit
    \/ \E w \in Objs : Deliver(w)
    \/ \E w \in Objs : UnitReceive(w)
    \/ \E w \in Objs : UnitModelLoaded(w)
    \/ \E w \in Objs : UnitProcessorLoaded(w)
    \/ \E w \in Objs : UnitLoadFailed(w)
    \/ \E w \in Objs : UnitComplete(w)
    \/ \E w \in Objs : UnitInferFailed(w)

SpecOneUnit == InitOneUnit /\ [][NextOneUnit]_vars

\* ---- the page (page.js) ----
\* a call of the page's processImage has a continuation to run: the promise
\* it awaits is settled.  Continuations are microtasks, they run before the
\* next event is handled.
ContinuationPending ==
    \E t \in awaiting : settles[t].resolve + settles[t].reject >= 1

\* checkWorkerPoolStatus of the effect, with `ready` as its closure holds it:
\* the new values of workerPoolStats and ready
checkWorkerPoolStatus(P, rdy) ==
    LET stats == getStats(P)
    IN  [ stats |-> stats,
          ready |-> IF stats.readyWorkers > 0 /\ rdy # "true" THEN "true"
                    ELSE IF stats.readyWorkers = 0 /\ rdy = "true" THEN "false"
                    ELSE rdy ]

\* the body of useEffect(..., [ready]): initialize, then the first check.
\* It runs after the render that follows mount or a change of `ready`.
EffectRun ==
    /\ ~ContinuationPending
    /\ effectDue
    /\ initCalls < MaxInitCalls
    /\ ObjsLeft >= maxWorkers
    /\ LET P == initialize(Pool, maxWorkers)
           c == checkWorkerPoolStatus(P, ready)
       IN  /\ Commit(P)
           /\ firstGen' = IF initCalls = 0
                          THEN [ workers |-> P.workers, objs |-> P.nObjs ]
                          ELSE firstGen
           /\ workerPoolStats' = << c.stats >>
           /\ ready' = c.ready
           /\ effectDue' = (c.ready # ready)
    /\ initCalls' = initCalls + 1
    /\ UNCHANGED << config, work, model, processor, builds, nTasks, reported,
                    faults, loadFailures, inferFailures, poolTerminated >>

\* a tick of setInterval(checkWorkerPoolStatus, 1000); the render and the
\* effect that follow a change of `ready` take place within one period
Poll ==
    /\ ~ContinuationPending
    /\ ~effectDue
    /\ initCalls >= 1
    /\ LET c == checkWorkerPoolStatus(Pool, ready)
       IN  /\ workerPoolStats' = << c.stats >>
           /\ ready' = c.ready
           /\ effectDue' = (c.ready # ready)
    /\ Commit(Pool)
    /\ UNCHANGED << config, work, model, processor, builds, nTasks, initCalls,
                    firstGen, reported, faults, loadFailures, inferFailures,
                    poolTerminated >>

\* the images of uploadedImages that are not processed, in list order
RECURSIVE unprocessedImages(_)
unprocessedImages(i) ==
    IF i > Len(uploadedImages)
    THEN << >>
    ELSE IF uploadedImages[i]
         THEN unprocessedImages(i + 1)
         ELSE << i >> \o unprocessedImages(i + 1)

\* the calls of workerPool.processImage made by unprocessedImages.map in
\* handleProcessAll: for each image the page's processImage runs up to its
\* await, all within the one handler; the first task is t
RECURSIVE processingPromises(_, _, _)
processingPromises(P, imgs, t) ==
    IF imgs = << >>
    THEN P
    ELSE processingPromises(processImage(P, t), Tail(imgs), t + 1)

\* the button "process" (disabled unless ready and not processing):
\* handleProcessImage for the selected image i, and processImage of the page
\* up to its await
PageProcessImage ==
    /\ ~ContinuationPending
    /\ ready = "true"
    /\ ~processing
    /\ nTasks < MaxTasks
    /\ \E i \in 1..Len(uploadedImages) :
        /\ ~uploadedImages[i]
        /\ taskImage' = [ taskImage EXCEPT ![nTasks + 1] = i ]
    /\ Commit(processImage(Pool, nTasks + 1))
    /\ nTasks' = nTasks + 1
    /\ processing' = TRUE
    /\ awaiting' = awaiting \cup { nTasks + 1 }
    /\ UNCHANGED << config, ready, workerPoolStats, effectDue,
                    batchProcessing, uploadedImages, batch, model, processor,
                    builds, initCalls, firstGen, reported, faults,
                    loadFailures, inferFailures, poolTerminated >>

\* the button "process all" (disabled unless ready, not processing and not
\* batchProcessing): handleProcessAll up to its await of Promise.allSettled
HandleProcessAll ==
    /\ ~ContinuationPending
    /\ ready = "true"
    /\ ~processing
    /\ ~batchProcessing
    /\ LET imgs == unprocessedImages(1)
           new == (nTasks + 1)..(nTasks + Len(imgs))
       IN  /\ imgs # << >>
           /\ nTasks + Len(imgs) <= MaxTasks
           /\ Commit(processingPromises(Pool, imgs, nTasks + 1))
           /\ nTasks' = nTasks + Len(imgs)
           /\ taskImage' = [ t \in Tasks |->
                               IF t \in new THEN imgs[t - nTasks]
                               ELSE taskImage[t] ]
           /\ awaiting' = awaiting \cup new
           /\ batch' = new
    /\ batchProcessing' = TRUE
    /\ processing' = TRUE
    /\ UNCHANGED << config, ready, workerPoolStats, effectDue, uploadedImages,
                    model, processor, builds, initCalls, firstGen, reported,
                    faults, loadFailures, inferFailures, poolTerminated >>

\* a map callback of a batch that ends the batch when its task was rejected
Continuation_FailFast(t) ==
    /\ t \in awaiting
    /\ settles[t].resolve + settles[t].reject >= 1
    /\ uploadedImages' = IF settles[t].resolve >= 1
                         THEN [ uploadedImages EXCEPT ![taskImage[t]] = TRUE ]
                         ELSE uploadedImages
    /\ processing' = FALSE
    /\ awaiting' = awaiting \ { t }
    /\ batch' = IF settles[t].reject >= 1 THEN { } ELSE batch \ { t }
    /\ batchProcessing' = IF t \in batch /\ batch' = { }
                          THEN FALSE
                          ELSE batchProcessing
    /\ Commit(Pool)
    /\ UNCHANGED << config, ready, workerPoolStats, effectDue, taskImage,
                    model, processor, builds, nTasks, initCalls, firstGen,
                    reported, faults, loadFailures, inferFailures,
                    poolTerminated >>

\* the promise of task t is settled and the page's processImage resumes: on
\* a result the image is marked processed, on a rejection the error is
\* rethrown, and finally processing is cleared.  Its caller resumes next:
\* handleProcessImage, or the map callback of handleProcessAll, both catch
\* the error; when the last callback of the batch has returned,
\* Promise.allSettled resolves and handleProcessAll clears batchProcessing.
Continuation(t) ==
    /\ t \in awaiting
    /\ settles[t].resolve + settles[t].reject >= 1
    /\ uploadedImages' = IF settles[t].resolve >= 1
                         THEN [ uploadedImages EXCEPT ![taskImage[t]] = TRUE ]
                         ELSE uploadedImages
    /\ processing' = FALSE
    /\ awaiting' = awaiting \ { t }
    /\ batch' = batch \ { t }
    /\ batchProcessing' = IF t \in batch /\ batch' = { }
                          THEN FALSE
                          ELSE batchProcessing
    /\ Commit(Pool)
    /\ UNCHANGED << config, ready, workerPoolStats, effectDue, taskImage,
                    model, processor, builds, nTasks, initCalls, firstGen,
                    reported, faults, loadFailures, inferFailures,
                    poolTerminated >>

\* the mounted page with its uploaded images, none of them processed, over
\* a pool whose units raise no error event
InitPage ==
    /\ requestedWorkers \in 1..MaxRequested
    /\ hardwareConcurrency \in 0..MaxHardware
    /\ adverseBudget = MaxAdverse
    /\ ready = "null"
    /\ workerPoolStats = << >>
    /\ effectDue = TRUE
    /\ processing = FALSE
    /\ batchProcessing = FALSE
    /\ uploadedImages \in { [ i \in 1..n |-> FALSE ] : n \in 1..MaxImages }
    /\ awaiting = { }
    /\ batch = { }
    /\ taskImage = [ t \in Tasks |-> 0 ]
    /\ Constructed

NextPage ==
    \/ \E t \in Tasks : Continuation(t)
    \/ EffectRun
    \/ Poll
    \/ PageProcessImage
    \/ HandleProcessAll
    \/ ~ContinuationPending /\ \E w \in Objs : Deliver(w)
    \/ ~ContinuationPending /\ \E w \in Objs : UnitReceive(w)
    \/ ~ContinuationPending /\ \E w \in Objs : UnitModelLoaded(w)
    \/ ~ContinuationPending /\ \E w \in Objs : UnitProcessorLoaded(w)
    \/ ~ContinuationPending /\ \E w \in Objs : UnitComplete(w)
    \/ ~ContinuationPending /\ \E w \in Objs : UnitInferFailed(w)

SpecPage == InitPage /\ [][NextPage]_vars

TypeOK ==
    /\ maxWorkers \in 1..MaxRequested
    /\ ready \in { "null", "true", "false" }
    /\ Len(workerPoolStats) <= 1
    /\ effectDue \in BOOLEAN
    /\ processing \in BOOLEAN
    /\ batchProcessing \in BOOLEAN
    /\ Len(uploadedImages) <= MaxImages
    /\ awaiting \subseteq Tasks
    /\ batch \subseteq awaiting
    /\ nObjs \in 0..MaxObjs
    /\ nTasks \in 0..MaxTasks

\* ---- what the claims speak of ----
Submitted(t) == t <= nTasks

Settlements(t) == settles[t].resolve + settles[t].reject

Settled(t) == Settlements(t) >= 1

\* the tasks of the active map that are bound to Worker object w
BoundTo(w) == { t \in Range(activeTasks) : taskWorker[t] = w }

\* the Worker objects that exist
Created == { w \in Objs : wstate[w] # "none" }

\* ---- C1 ----
\* C1: tasks are dispatched in submission order: executeTask is invoked for
\* tasks in increasing order of submission, and no task that is still
\* waiting in the queue was submitted before a task already dispatched.
C1_DispatchInSubmissionOrder ==
    /\ \A i, j \in 1..Len(dispatched) : i < j => dispatched[i] < dispatched[j]
    /\ \A i \in 1..Len(dispatched), j \in 1..Len(taskQueue) :
           dispatched[i] < taskQueue[j]

\* two tasks went, one after the other, to the same unit
C1_Witness ==
    /\ dispatched = << 1, 2 >>
    /\ taskWorker[1] = taskWorker[2]
    /\ taskWorker[1] # NoWorker

\* ---- C2 ----
\* C2: no future is settled twice: for every task, resolve and reject have
\* been invoked at most once in total, whichever handler invoked them.
C2_NoDoubleSettle == \A t \in Tasks : Settlements(t) <= 1

\* one task was resolved by its complete message, another was rejected by
\* terminate
C2_Witness ==
    /\ poolTerminated
    /\ \E t, u \in Tasks :
        /\ settles[t].by.status = "complete"
        /\ settles[u].by.status = "terminated"

\* ---- C4 ----
\* C4: every task that was submitted and is not settled is in exactly one
\* of the pending queue and the active map.
C4_QueueXorActive ==
    \A t \in Tasks :
        Submitted(t) /\ ~Settled(t) =>
            InSeq(t, taskQueue) # InSeq(t, activeTasks)

\* an unsettled task is active while another waits in the queue
C4_Witness ==
    /\ Len(activeTasks) = 1
    /\ Len(taskQueue) = 1
    /\ \A t \in Tasks : ~Settled(t)

\* ---- C9 ----
\* C9: the first initialize spawns min(requested, hardwareConcurrency or 4)
\* units with ordinals 0..n-1, each listened to for message and error
\* events and sent one init directive, and none of them is in the ready set
\* before a ready, complete or error message of it has been handled.
C9_FirstInitialize ==
    initCalls >= 1 =>
        LET hw == IF hardwareConcurrency = 0 THEN DefaultConcurrency
                  ELSE hardwareConcurrency
            n == IF requestedWorkers <= hw THEN requestedWorkers ELSE hw
        IN  /\ firstGen.workers = [ i \in 1..n |-> i ]
            /\ firstGen.objs = n
            /\ \A w \in 1..n :
                /\ wid[w] = w - 1
                /\ listeners[w] = { "message", "error" }
                /\ initsSent[w] = 1
                /\ InSeq(w, readyWorkers) => reported[w]

\* two units were spawned; the first has reported ready, the second not yet
C9_Witness ==
    /\ initCalls = 1
    /\ Len(firstGen.workers) = 2
    /\ InSeq(1, readyWorkers)
    /\ ~reported[2]
    /\ ~InSeq(2, readyWorkers)

\* ---- C3 ----
\* nothing is pending: no timer, no directive or message in flight, no
\* listener of a unit suspended; from here on only a new call or a new
\* error event changes the state
Quiescent ==
    /\ timers = << >>
    /\ \A w \in Objs :
        inbox[w] = << >> /\ outbox[w] = << >> /\ handlers[w] = {}

\* C3: every future returned by processImage settles once the handlers, the
\* timers and the units have run: when nothing is pending on a pool that was
\* initialized and not terminated, every submitted task is settled.
C3_SettledAtQuiescence ==
    Quiescent /\ initCalls >= 1 /\ ~poolTerminated =>
        \A t \in Tasks : Submitted(t) => Settled(t)

\* ---- C5 ----
\* C5: a unit is in the ready set if and only if no task of the active map
\* is bound to it.  Stated here is the half on which dispatching relies: no
\* unit of the ready set has a task of the active map bound to it.
C5_ReadyUnitsAreUnbound ==
    \A w \in Range(readyWorkers) : BoundTo(w) = {}

\* ---- C6 ----
\* C6: a unit accepts one task at a time: at most one task of the active
\* map is bound to any unit.
C6_OneTaskPerUnit == \A w \in Created : Cardinality(BoundTo(w)) <= 1

\* ---- C7 ----
\* C7: concurrency is bounded by the unit count:
\* getStats().activeTasks <= getStats().totalWorkers.  Stated here for a
\* pool on which initialize was called once and terminate never.
C7_ActiveAtMostTotal ==
    initCalls = 1 /\ ~poolTerminated =>
        getStats(Pool).activeTasks <= getStats(Pool).totalWorkers

\* ---- C8 ----
\* C8: initialize is idempotent with respect to spawning: after two calls
\* with no terminate, workers.length is the configured pool size.
C8_InitializeSpawnsOnce ==
    initCalls = 2 /\ ~poolTerminated => Len(workers) = maxWorkers

\* ---- C10 ----
\* C10: after the first initialize and before terminate,
\* getStats().totalWorkers is the size chosen at the first initialize.
C10_PoolSizeFixed ==
    initCalls >= 1 /\ ~poolTerminated =>
        getStats(Pool).totalWorkers = Len(firstGen.workers)

C12_FaultRejectsOnlyBound ==
    [][ \A w \in Objs : Fault(w) =>
          /\ \A t \in BoundTo(w) :
                /\ settles'[t].reject = settles[t].reject + 1
                /\ settles'[t].resolve = settles[t].resolve
                /\ settles'[t].by.status = "fault"
                /\ ~InSeq(t, activeTasks')
          /\ readyWorkers' = SeqDelete(readyWorkers, w)
          /\ ~InSeq(w, readyWorkers')
          /\ ~busy'[w]
          /\ taskQueue' = taskQueue
          /\ \A t \in Range(activeTasks) \ BoundTo(w) : InSeq(t, activeTasks')
          /\ \A t \in Tasks \ BoundTo(w) : settles'[t] = settles[t]
          /\ \A v \in Objs \ { w } : busy'[v] = busy[v]
          /\ workers' = workers
          /\ taskWorker' = taskWorker
          /\ dispatched' = dispatched ]_vars

\* a fault has rejected one task while a task bound to another unit is still
\* active and unsettled
C12_Witness ==
    /\ faults = 1
    /\ \E t, u \in Tasks :
        /\ settles[t].by.status = "fault"
        /\ InSeq(u, activeTasks)
        /\ ~Settled(u)
        /\ taskWorker[u] # taskWorker[t]

\* ---- C13 ----
\* C13: after a unit faults while bound to a task the task's future is
\* rejected, and once the restart delay has elapsed a fresh unit with the
\* same ordinal has replaced the faulted one in the unit list, is wired to
\* the same two handlers and has been sent init, so the number of units is
\* what it was before the fault.  Stated for a pool that has not been
\* terminated.
C13_RestartReplacesFaulted ==
    [][ /\ \A w \in Objs : Fault(w) =>
              /\ \A t \in BoundTo(w) : settles'[t].reject = settles[t].reject + 1
              /\ workers' = workers
        /\ (RestartTimer /\ ~poolTerminated) =>
              LET w == Head(timers)
                  n == nObjs'
              IN  /\ n = nObjs + 1
                  /\ wstate'[n] = "live"
                  /\ wid'[n] = wid[w]
                  /\ listeners'[n] = { "message", "error" }
                  /\ inbox'[n] = << InitDirective >>
                  /\ wstate'[w] = "terminated"
                  /\ Len(workers') = Len(workers)
                  /\ InSeq(n, workers')
                  /\ ~InSeq(w, workers') ]_vars

\* ---- C14 ----
\* C14: an error scoped to a task rejects only that task: the error message
\* a unit posts when the inference of task T fails settles the future of T
\* and of no other task.
C14_InferenceErrorRejectsItsTask ==
    \A t \in Tasks :
        (settles[t].by.status = "error" /\ settles[t].by.what = "inference")
            => settles[t].by.src = t

\* ---- C15 ----
\* C15: handling a complete message of a unit removes the task bound to
\* that unit from the active map, marks the unit not busy and ready,
\* resolves that task's future with the delivered message, and then drains
\* the queue in the same step: the head of a non-empty queue is dispatched,
\* and with an empty queue the unit is left ready and not busy.
C15_CompleteSettlesAndDrains ==
    [][ \A w \in Objs :
          (Deliver(w) /\ Head(outbox[w]).status = "complete") =>
            LET data == Head(outbox[w])
                t == findTaskIdByWorker(Pool, w)
            IN  /\ t # NoTask =>
                      /\ ~InSeq(t, activeTasks')
                      /\ settles'[t].resolve = settles[t].resolve + 1
                      /\ settles'[t].reject = settles[t].reject
                      /\ settles'[t].by = data
                /\ \A u \in Tasks \ { t } : settles'[u] = settles[u]
                /\ IF taskQueue = << >>
                   THEN /\ InSeq(w, readyWorkers')
                        /\ ~busy'[w]
                        /\ dispatched' = dispatched
                   ELSE /\ dispatched' = Append(dispatched, Head(taskQueue))
                        /\ taskQueue' = Tail(taskQueue)
                        /\ InSeq(Head(taskQueue), activeTasks')
                        /\ \/ InSeq(w, readyWorkers') /\ ~busy'[w]
                           \/ taskWorker'[Head(taskQueue)] = w /\ busy'[w] ]_vars

\* a task was resolved by a complete message and the task that was queued
\* behind it runs on the same unit
C15_Witness ==
    \E t, u \in Tasks :
        /\ settles[t].by.status = "complete"
        /\ settles[t].resolve = 1
        /\ dispatched = << t, u >>
        /\ InSeq(u, activeTasks)
        /\ taskWorker[u] = taskWorker[t]
        /\ Len(workers) = 1

\* ---- C16 ----
\* C16: a submission is dispatched at once exactly when a unit is ready,
\* and it then takes one unit out of the ready set; otherwise it joins the
\* tail of the queue.  So k submissions to a pool whose n units are all
\* ready and idle, k > n, dispatch the first n at once and leave the other
\* k - n queued in submission order.  Every later complete or error
\* message dispatches exactly the head of the queue.
C16_FirstNThenHeadPerMessage ==
    [][ /\ Submit =>
              LET q == Append(taskQueue, nTasks + 1)
              IN  IF readyWorkers # << >>
                  THEN /\ dispatched' = Append(dispatched, Head(q))
                       /\ taskQueue' = Tail(q)
                       /\ readyWorkers' = Tail(readyWorkers)
                  ELSE /\ dispatched' = dispatched
                       /\ taskQueue' = q
        /\ \A w \in Objs :
              (Deliver(w) /\ Head(outbox[w]).status \in { "complete", "error" })
                => IF taskQueue # << >>
                   THEN /\ dispatched' = Append(dispatched, Head(taskQueue))
                        /\ taskQueue' = Tail(taskQueue)
                   ELSE /\ dispatched' = dispatched
                        /\ taskQueue' = taskQueue ]_vars

\* two tasks were submitted to a pool whose one unit was ready: the first
\* runs, the second waits
C16_Witness ==
    /\ Len(workers) = 1
    /\ reported[workers[1]]
    /\ nTasks = 2
    /\ dispatched = << 1 >>
    /\ taskQueue = << 2 >>
    /\ activeTasks = << 1 >>
    /\ Adverse

\* ---- C17 ----
\* C17: the pending queue lists the waiting tasks in submission order: each
\* queued task was submitted before every task behind it.
C17_QueueInSubmissionOrder ==
    \A i, j \in 1..Len(taskQueue) : i < j => taskQueue[i] < taskQueue[j]

\* two tasks wait in the queue
C17_Witness ==
    /\ Len(taskQueue) = 2
    /\ initCalls >= 1

\* ---- C18 ----
\* C18: draining leaves no dispatchable work behind: after every step the
\* queue is empty or the ready set is empty, and a drain that finds the
\* ready set empty dispatches nothing and leaves the queue as it is (a
\* submission made then only appends its task).
C18_NoDispatchableWorkLeft ==
    [][ /\ taskQueue' = << >> \/ readyWorkers' = << >>
        /\ (Submit /\ readyWorkers = << >>) =>
              /\ dispatched' = dispatched
              /\ activeTasks' = activeTasks
              /\ taskQueue' = Append(taskQueue, nTasks + 1) ]_vars

\* of two units one is busy and the other has not reported yet, so the
\* second task waits with no unit ready
C18_Witness ==
    /\ Len(workers) = 2
    /\ readyWorkers = << >>
    /\ activeTasks = << 1 >>
    /\ taskQueue = << 2 >>
    /\ \E w \in Range(workers) : ~reported[w]

\* ---- C19 ----
\* the figures of getStats and the units bound to an active task
BusyUnits == { w \in Objs : BoundTo(w) # { } }

\* C19: the book-keeping of units adds up: on a pool that was initialized
\* once and not terminated the ready units and the units bound to an active
\* task are together no more than the units of the pool, and while a task
\* is queued the active tasks are no more than the units that are not
\* ready.  (The claim states both with equality.)
C19_UnitAccounting ==
    (initCalls = 1 /\ ~poolTerminated) =>
        LET stats == getStats(Pool)
        IN  /\ stats.readyWorkers + Cardinality(BusyUnits) <= stats.totalWorkers
            /\ stats.queuedTasks > 0 =>
                  stats.activeTasks <= stats.totalWorkers - stats.readyWorkers

\* ---- C20 ----
\* the listeners of unit w that are suspended in a from_pretrained call
Constructing(w) == { h \in handlers[w] : h.pc \in { "model", "proc" } }

\* C20: directives whose handlers overlap at the awaits of getInstance do
\* not construct the pipeline twice: at most one listener of a unit is
\* inside a construction at a time, later callers wait for that one.
C20_OneConstructionInFlight ==
    \A w \in Objs : Cardinality(Constructing(w)) <= 1

\* ---- C21 ----
\* the terminal messages (complete, error) of unit w for task t that wait
\* for delivery
TerminalPosted(w, t) ==
    SelectSeq(outbox[w], LAMBDA m : m.src = t /\ m.status \in { "complete", "error" })

\* C21: a unit answers a task directive with exactly one terminal message,
\* complete or error, also when the construction of the pipeline fails
\* while it serves the task: never are two terminal messages of one task
\* under way.
C21_OneTerminalMessagePerTask ==
    \A w \in Objs : \A t \in Tasks : Len(TerminalPosted(w, t)) <= 1

\* ---- C22 ----
\* the fields of the pool and of its Worker objects
poolState ==
    << workers, taskQueue, activeTasks, readyWorkers, isInitializing,
       taskWorker, settles, progressed, wstate, wid, busy, listeners,
       initsSent, inbox, outbox, handlers, timers, nObjs, dispatched >>

\* C22: getStats is a pure read: the poll that calls it changes nothing of
\* the pool and obtains exactly the length of the unit list, the size of
\* the ready set, the size of the active map, the length of the pending
\* queue and the initializing flag.
C22_GetStatsPureRead ==
    [][ Poll =>
          /\ workerPoolStats' =
                << [ totalWorkers |-> Len(workers),
                     readyWorkers |-> Len(readyWorkers),
                     activeTasks |-> Len(activeTasks),
                     queuedTasks |-> Len(taskQueue),
                     isInitializing |-> isInitializing ] >>
          /\ UNCHANGED poolState ]_vars

\* the poll has read a pool with one task running and one waiting
C22_Witness ==
    /\ workerPoolStats # << >>
    /\ workerPoolStats[1].totalWorkers = Len(workers)
    /\ workerPoolStats[1].readyWorkers = 0
    /\ workerPoolStats[1].activeTasks = 1
    /\ workerPoolStats[1].queuedTasks = 1
    /\ Len(taskQueue) = 1
    /\ Len(activeTasks) = 1

\* ---- C23 ----
\* C23: a unit message whose status is none of ready, complete, error is
\* handed unchanged to the onProgress callback of the task bound to the
\* unit, if there is one, and leaves the pending queue, the active map, the
\* ready set, the busy flags and every future as they are; with no bound
\* task it has no effect.
C23_ProgressOnlyForwards ==
    [][ \A w \in Objs :
          (Deliver(w)
             /\ Head(outbox[w]).status \notin { "ready", "complete", "error" })
            => LET data == Head(outbox[w])
                   t == findTaskIdByWorker(Pool, w)
               IN  /\ taskQueue' = taskQueue
                   /\ activeTasks' = activeTasks
                   /\ readyWorkers' = readyWorkers
                   /\ busy' = busy
                   /\ settles' = settles
                   /\ dispatched' = dispatched
                   /\ progressed' = IF t # NoTask
                                    THEN [ progressed EXCEPT ![t] = data ]
                                    ELSE progressed ]_vars

\* a progress message of the construction done for a task reached that
\* task's callback while the task is active
C23_Witness ==
    \E t \in Tasks :
        /\ InSeq(t, activeTasks)
        /\ progressed[t].status = "progress"
        /\ progressed[t].src = t
        /\ ~Settled(t)

\* ---- C24 ----
\* C24: the application calls workerPool.initialize once: however `ready`
\* changes with what the one-second poll reads, initialize has been called
\* at most once, at mount.
C24_PageInitializesOnce == initCalls <= 1

\* ---- C25 ----
\* C25: processImage never fails at the call: in every state of the pool
\* (not initialized, all units busy, terminated) the call leaves the new
\* task's future pending, with the task in the pending queue or in the
\* active map, and settles no other future.
C25_SubmitReturnsPending ==
    [][ Submit =>
          LET t == nTasks + 1
          IN  /\ settles'[t].resolve = 0
              /\ settles'[t].reject = 0
              /\ InSeq(t, taskQueue') \/ InSeq(t, activeTasks')
              /\ \A u \in Tasks : settles'[u] = settles[u] ]_vars

\* terminate has rejected an earlier task, and a task submitted to the
\* terminated pool waits in the queue with its future pending
C25_Witness ==
    /\ poolTerminated
    /\ workers = << >>
    /\ \E t \in Tasks :
        /\ settles[t].by.status = "terminated"
        /\ \E u \in Tasks :
            /\ u > t
            /\ InSeq(u, taskQueue)
            /\ ~Settled(u)

\* ---- C26 ----
\* C26: results are not delivered across tasks: the complete or error
\* message a future was settled with was posted by the unit while it
\* served that same task.
C26_NoCrossDelivery ==
    \A t \in Tasks :
        settles[t].by.status \in { "complete", "error" }
            => settles[t].by.src = t

\* ---- C27 ----
\* the units that have faulted: they wait for their restart timer or were
\* terminated by restartWorker
Faulted ==
    { w \in Objs : InSeq(w, timers) \/ (~poolTerminated /\ wstate[w] = "terminated") }

\* C27: no task goes to a dead unit: on a pool that has not been terminated
\* a unit that has faulted is not in the ready set, neither before
\* restartWorker terminates it nor afterwards, and no active task is bound
\* to a terminated unit.
C27_FaultedUnitsNotOffered ==
    ~poolTerminated =>
        /\ \A w \in Faulted : ~InSeq(w, readyWorkers)
        /\ \A t \in Range(activeTasks) :
              taskWorker[t] # NoWorker => wstate[taskWorker[t]] # "terminated"

\* ---- C28 ----
\* C28: termination is final for the units: once terminate has run, no
\* step other than a new call of initialize creates a unit, sends init or
\* changes the unit list, also when the restart timer of an earlier fault
\* fires after the terminate.
C28_NoUnitAfterTerminate ==
    [][ (poolTerminated /\ ~Initialize) =>
          /\ nObjs' = nObjs
          /\ initsSent' = initsSent
          /\ workers' = workers ]_vars

\* ---- C29 ----
\* the Worker objects that were created and not terminated
Live == { w \in Objs : wstate[w] = "live" }

\* C29: every live unit is tracked and there is one per ordinal: on a pool
\* that was initialized once and not terminated each live unit is in the
\* unit list, no two live units have the same ordinal, and the ready set is
\* no larger than the unit list.
C29_LiveUnitsTracked ==
    (initCalls = 1 /\ ~poolTerminated) =>
        /\ \A w \in Live : InSeq(w, workers)
        /\ \A v, w \in Live : wid[v] = wid[w] => v = w
        /\ getStats(Pool).readyWorkers <= getStats(Pool).totalWorkers

\* ---- C30 ----
\* C30: a unit is in the ready set only if its pipeline has been built:
\* every live unit of the ready set holds a model and a processor.
C30_ReadyUnitsHavePipeline ==
    \A w \in Live : InSeq(w, readyWorkers) => (model[w] /\ processor[w])

\* ---- C31 ----
\* C31: ready is the signal of a finished start-up, not of a task: a unit
\* posts ready only for the construction made for its init directive,
\* never while it is serving a task, so that a second ready cannot reach
\* the pool while the first has already given the unit a task.
C31_ReadyOnlyFromInit ==
    \A w \in Objs : \A i \in 1..Len(outbox[w]) :
        outbox[w][i].status = "ready" => outbox[w][i].src = InitSrc

\* ---- C32 ----
\* C32: the busy flag of a unit follows its binding: on a pool that was
\* initialized once and not terminated, worker.busy of a live unit is true
\* exactly when some task of the active map is bound to the unit.
C32_BusyIffBound ==
    (initCalls = 1 /\ ~poolTerminated) =>
        \A w \in Live : busy[w] <=> (BoundTo(w) # { })

\* ---- C33 ----
\* C33: a task submitted while no unit is ready is held in the pending
\* queue and not dropped: it joins the queue, it leaves the queue only by
\* being dispatched as its head (or by the rejection of terminate), and the
\* head is dispatched by the first ready, complete or error message that
\* is handled, also the ready of the replacement of a faulted unit.
C33_QueuedTasksAreKept ==
    [][ /\ (Submit /\ readyWorkers = << >>) => InSeq(nTasks + 1, taskQueue')
        /\ ~Terminate =>
              \A t \in Range(taskQueue) :
                  \/ InSeq(t, taskQueue')
                  \/ /\ t = Head(taskQueue)
                     /\ InSeq(t, activeTasks')
                     /\ dispatched' = Append(dispatched, t)
        /\ \A w \in Objs :
              (Deliver(w)
                 /\ Head(outbox[w]).status \in { "ready", "complete", "error" }
                 /\ taskQueue # << >>)
                => /\ dispatched' = Append(dispatched, Head(taskQueue))
                   /\ taskQueue' = Tail(taskQueue) ]_vars

\* after a fault the unit was replaced, and a task now runs on the
\* replacement while the faulted unit never had one
C33_Witness ==
    /\ initCalls = 1
    /\ ~poolTerminated
    /\ faults = 1
    /\ \E t \in Tasks :
        /\ InSeq(t, activeTasks)
        /\ taskWorker[t] > firstGen.objs
        /\ dispatched = << t >>

\* ---- C35 ----
\* C35: when a load of the pipeline construction throws, the error message
\* posted by getInstance names the phase: "processor" if the attempt that
\* failed had already loaded its model, "model" otherwise.  (The message
\* posted next by the listener's catch carries the raw error text.)
C35_LoadErrorNamesPhase ==
    [][ \A w \in Objs :
          UnitLoadFailed(w) =>
            LET h == CHOOSE x \in handlers[w] \ handlers'[w] : TRUE
                m == outbox'[w][Len(outbox[w]) + 1]
            IN  /\ Len(outbox'[w]) = Len(outbox[w]) + 2
                /\ m.status = "error"
                /\ h.pc = "model" => m.what = "model"
                /\ h.pc = "proc" => m.what = "processor" ]_vars

\* a unit whose model load succeeded posted a processor-phase error
C35_Witness ==
    \E w \in Objs :
        /\ model[w]
        /\ ~processor[w]
        /\ \E i \in 1..Len(outbox[w]) :
              /\ outbox[w][i].status = "error"
              /\ outbox[w][i].what = "processor"

\* ---- C34 ----
\* C34: batch processing is fail-soft: handleProcessAll submits a task for
\* every unprocessed image and sets batchProcessing; when the page resumes
\* after a task of the batch has settled, by result or by rejection, the
\* pool and the sibling tasks of the batch are left as they are and the
\* batch goes on; batchProcessing is true exactly while a callback of the
\* batch is outstanding, so it is false again once every task of the batch
\* has settled and the page has resumed.
C34_BatchFailSoft ==
    [][ /\ HandleProcessAll =>
              /\ batchProcessing'
              /\ \A i \in 1..Len(uploadedImages) :
                    ~uploadedImages[i] =>
                        \E t \in (nTasks + 1)..nTasks' :
                            /\ taskImage'[t] = i
                            /\ \/ InSeq(t, taskQueue')
                               \/ InSeq(t, activeTasks')
        /\ \A t \in batch :
              Continuation(t) =>
                  /\ taskQueue' = taskQueue
                  /\ activeTasks' = activeTasks
                  /\ settles' = settles
                  /\ \A u \in batch \ { t } : u \in batch' /\ u \in awaiting'
        /\ batchProcessing' <=> (batch' # { })
        /\ (batchProcessing' /\ ~ContinuationPending') =>
              \E u \in batch' : ~Settled(u)' ]_vars

\* a batch is running of which one task was rejected, the page has resumed
\* from that rejection, and a sibling has been resolved since
C34_Witness ==
    /\ batchProcessing
    /\ \E t \in Tasks :
        /\ taskImage[t] # 0
        /\ settles[t].reject >= 1
        /\ t \notin awaiting
        /\ \E u \in batch : settles[u].resolve >= 1

\* ---- C36 ----
\* C36: while a task submitted through the page's processImage is not
\* settled, the page's processing flag is true.
C36_ProcessingCoversInFlight ==
    (\E t \in Tasks : Submitted(t) /\ taskImage[t] # 0 /\ ~Settled(t))
        => processing

====
